---- MODULE Spec2Model ----
(***************************************************************************)
(* State-machine model of the zerogamma analysis pipeline:                 *)
(*   src/config.py, src/send_analysis.py, src/fmp_data.py,                 *)
(*   src/openrouter_analysis.py, src/telegram_sender.py.                   *)
(*                                                                         *)
(* One behaviour is one call of a public entry point (variable entry):     *)
(* the command-line main, or a direct call of send_to_telegram,            *)
(* fetch_zerogamma_level, fetch_spx_ohlc_csv, analyze_with_openrouter or   *)
(* format_analysis_message with arguments drawn from bounded sets.         *)
(***************************************************************************)
EXTENDS Integers, Sequences, FiniteSets, TLC

\* ------------------------------------------------------------------ bounds
\* longest chat / thread identifier string drawn
MaxIdLen == 2
\* most price records in one provider response
MaxBars == 3
\* largest requested day count drawn
MaxDays == 3
\* most items in an implications list
MaxItems == 2
\* longest narrative text drawn for the message builder
MaxTextLen == 5

\* --------------------------------------------------------- Python values
\* Optional values: None is the empty tuple, a present value v is <<v>>.
None == <<>>
Some(v) == <<v>>

\* JSON values are records tagged by kind (the tag sorts before val).
JNull == [kind |-> "null"]
JNum(n) == [kind |-> "num", val |-> n]
JStr(s) == [kind |-> "str", val |-> s]
JBool(b) == [kind |-> "bool", val |-> b]
JList(xs) == [kind |-> "list", val |-> xs]
JDict(f) == [kind |-> "dict", val |-> f]

\* A dict from a set of <<key, value>> pairs with distinct keys.
MkDict(pairs) == [k \in {p[1] : p \in pairs} |-> (CHOOSE p \in pairs : p[1] = k)[2]]

\* The result of a call: a returned value or a raised exception class.
Ok(v) == [kind |-> "ok", val |-> v]
Raise(e) == [kind |-> "raise", exc |-> e]

\* Exception classes that derive from requests.exceptions.RequestException.
RequestExceptions == {"Timeout", "HTTPError", "ConnectionError", "JSONDecodeError"}

\* ------------------------------------------------------------ config.py
required_vars == <<"FMP_API_KEY", "OPENROUTER_API_KEY", "TELEGRAM_BOT_TOKEN", "TELEGRAM_CHAT_ID">>

RequiredSet == {required_vars[i] : i \in 1..Len(required_vars)}

\* os.getenv(var): None when unset, else the string (a tuple of characters).
getenv(env, var) == env[var]

\* `not value`: true of None and of the empty string.
IsFalsy_NoneOnly(value) == value = None

IsFalsy(value) == value = None \/ value = Some(<<>>)

missing_vars(env) == {v \in RequiredSet : IsFalsy(getenv(env, v))}

get_config(env) ==
    IF missing_vars(env) # {}
    THEN Raise("ValueError")
    ELSE Ok([v \in RequiredSet |-> getenv(env, v)[1]])

\* ------------------------------------------------------- Python builtins
Chars == {"-", "1", "a", " "}
Digits == {"1"}

RECURSIVE SeqsUpTo(_, _)
\* all tuples over S of length at most n
SeqsUpTo(S, n) ==
    IF n = 0 THEN {<<>>}
    ELSE LET shorter == SeqsUpTo(S, n - 1)
         IN shorter \cup {Append(s, c) : s \in shorter, c \in S}

\* the whitespace characters of the strings drawn
Whitespace == {" ", "\n"}

RECURSIVE lstrip(_)
lstrip(s) == IF s # <<>> /\ Head(s) \in Whitespace THEN lstrip(Tail(s)) ELSE s

RECURSIVE rstrip(_)
rstrip(s) ==
    IF s # <<>> /\ s[Len(s)] \in Whitespace THEN rstrip(SubSeq(s, 1, Len(s) - 1)) ELSE s

strip(s) == rstrip(lstrip(s))

RECURSIVE DecimalValue(_)
\* value of a tuple of decimal digits
DecimalValue(ds) ==
    IF ds = <<>> THEN 0
    ELSE 10 * DecimalValue(SubSeq(ds, 1, Len(ds) - 1)) + (IF ds[Len(ds)] = "1" THEN 1 ELSE 0)

\* int(s) of a str: surrounding whitespace is dropped, then an optional sign
\* and at least one digit must remain; anything else raises ValueError.
int(s) ==
    LET t == strip(s)
        neg == t # <<>> /\ Head(t) = "-"
        body == IF neg THEN Tail(t) ELSE t
    IN IF body = <<>> \/ \E i \in 1..Len(body) : body[i] \notin Digits
       THEN Raise("ValueError")
       ELSE Ok(IF neg THEN 0 - DecimalValue(body) ELSE DecimalValue(body))

\* Numbers are held in thousandths (5800.5 is 5800500).
\* float(str): the numeric strings of the universe and their values.
NumericStrings == {"5800.5", "5795"}
StrToFloat(s) == IF s = "5800.5" THEN 5800500 ELSE 5795000

\* float(x) of a decoded JSON value
float(x) ==
    CASE x.kind = "num" -> Ok(x.val)
      [] x.kind = "bool" -> Ok(IF x.val THEN 1000 ELSE 0)
      [] x.kind = "str" -> IF x.val \in NumericStrings THEN Ok(StrToFloat(x.val))
                           ELSE Raise("ValueError")
      [] OTHER -> Raise("TypeError")

\* ------------------------------------- send_analysis.fetch_zerogamma_level
DEFAULT_SYM == "SPX"

\* strings of the universe that contain the substring zero_g_strike
StringsWithStrike == {"zero_g_strike", "no zero_g_strike here"}

\* `"zero_g_strike" in row`: key test on a dict, substring test on a str,
\* element test on a list, TypeError on anything that is not a container.
ContainsStrike(row) ==
    CASE row.kind = "dict" -> Ok("zero_g_strike" \in DOMAIN row.val)
      [] row.kind = "str" -> Ok(row.val \in StringsWithStrike)
      [] row.kind = "list" -> Ok(\E i \in 1..Len(row.val) : row.val[i] = JStr("zero_g_strike"))
      [] OTHER -> Raise("TypeError")

\* row.get(key, default)
DictGet(d, key, default) == IF key \in DOMAIN d THEN d[key] ELSE default

\* The body of the try block after resp.json() returned data.
ParseLevel_NoShapeCheck(sym, data) ==
    LET row == IF data.kind = "list" /\ data.val # <<>> THEN data.val[1] ELSE JNull
    IN Ok([sym |-> JStr(sym), trade_date |-> JStr(""),
           zero_g_strike |-> IF row.kind = "dict" /\ "zero_g_strike" \in DOMAIN row.val
                                /\ float(row.val["zero_g_strike"]).kind = "ok"
                             THEN float(row.val["zero_g_strike"]).val ELSE 0])

ParseLevel(sym, data) ==
    IF data.kind # "list" \/ data.val = <<>>
    THEN Raise("ValueError")
    ELSE LET row == data.val[1]
             has == ContainsStrike(row)
         IN IF has.kind = "raise" THEN has
            ELSE IF ~has.val THEN Raise("ValueError")
            ELSE IF row.kind # "dict" THEN Raise("AttributeError")
            ELSE LET f == float(row.val["zero_g_strike"])
                 IN IF f.kind = "raise" THEN f
                    ELSE Ok([sym |-> DictGet(row.val, "sym", JStr(sym)),
                             trade_date |-> DictGet(row.val, "trade_date", JStr("")),
                             zero_g_strike |-> f.val])

\* http is what requests.get / raise_for_status / resp.json() produced:
\* a raised exception or the decoded body.
fetch_zerogamma_level(sym, http) ==
    IF http.kind = "raise" THEN http ELSE ParseLevel(sym, http.val)

\* format(x, ".2f") of a number: rounded to hundredths, as <<units, hundredths>>
Fmt2(n) == LET q == (n + 5) \div 10 IN <<q \div 100, q % 100>>

\* f"{x:.2f}" of a decoded JSON value
FormatPrice(x) ==
    CASE x.kind = "num" -> Ok(Fmt2(x.val))
      [] x.kind = "bool" -> Ok(Fmt2(IF x.val THEN 1000 ELSE 0))
      [] x.kind = "str" -> Raise("ValueError")
      [] OTHER -> Raise("TypeError")

\* bool(x) of a decoded JSON value
Truthy(x) ==
    CASE x.kind = "null" -> FALSE
      [] x.kind = "bool" -> x.val
      [] x.kind = "num" -> x.val # 0
      [] x.kind = "str" -> x.val # ""
      [] x.kind = "list" -> x.val # <<>>
      [] OTHER -> DOMAIN x.val # {}

\* ------------------------------------------- fmp_data.fetch_spx_ohlc_csv
\* ISO dates compare as strings in the order of the calendar.
Dates == <<"2024-01-02", "2024-01-03", "2024-01-04">>
DateIndex(d) == CHOOSE i \in 1..Len(Dates) : Dates[i] = d

\* x["date"] of one entry of the list
DateKey(x) ==
    IF x.kind # "dict" THEN Raise("TypeError")
    ELSE IF "date" \notin DOMAIN x.val THEN Raise("KeyError")
    ELSE Ok(x.val["date"])

\* k1 <= k2 for two keys that are both str
KeyLeq(x, y) == DateIndex(x.val["date"].val) <= DateIndex(y.val["date"].val)

RECURSIVE InsertByDate(_, _)
\* x placed behind every element whose date is not later (the sort is stable)
InsertByDate(x, s) ==
    IF s = <<>> THEN <<x>>
    ELSE IF KeyLeq(s[Len(s)], x) THEN Append(s, x)
    ELSE Append(InsertByDate(x, SubSeq(s, 1, Len(s) - 1)), s[Len(s)])

RECURSIVE SortByDate(_)
SortByDate(s) ==
    IF s = <<>> THEN <<>>
    ELSE InsertByDate(s[Len(s)], SortByDate(SubSeq(s, 1, Len(s) - 1)))

\* sorted(historical, key=lambda x: x["date"])
sorted(historical) ==
    IF historical.kind # "list" THEN Raise("TypeError")
    ELSE LET xs == historical.val
             bad == {i \in 1..Len(xs) : DateKey(xs[i]).kind = "raise"}
         IN IF bad # {}
            THEN DateKey(xs[CHOOSE i \in bad : \A j \in bad : i <= j])
            ELSE IF Len(xs) >= 2 /\ \E i \in 1..Len(xs) : xs[i].val["date"].kind # "str"
            THEN Raise("TypeError")
            ELSE Ok(SortByDate(xs))

\* historical[-days:] when len(historical) > days
LastDays(xs, days) ==
    IF Len(xs) > days
    THEN IF days = 0 THEN xs ELSE SubSeq(xs, Len(xs) - days + 1, Len(xs))
    ELSE xs

\* str(date) inside the f-string
DateText(x) == IF x.kind = "str" THEN x.val ELSE "None"

\* One CSV line, or the exception formatting a price raises.
CsvLine(record) ==
    LET o == FormatPrice(DictGet(record.val, "open", JNum(0)))
        h == FormatPrice(DictGet(record.val, "high", JNum(0)))
        l == FormatPrice(DictGet(record.val, "low", JNum(0)))
        c == FormatPrice(DictGet(record.val, "close", JNum(0)))
    IN IF o.kind = "raise" THEN o
       ELSE IF h.kind = "raise" THEN h
       ELSE IF l.kind = "raise" THEN l
       ELSE IF c.kind = "raise" THEN c
       ELSE Ok([date |-> DateText(DictGet(record.val, "date", JStr(""))),
                open |-> o.val, high |-> h.val, low |-> l.val, close |-> c.val])

\* The data lines of the table (the header line is constant).
CsvLines(xs) ==
    LET bad == {i \in 1..Len(xs) : CsvLine(xs[i]).kind = "raise"}
    IN IF bad # {}
       THEN CsvLine(xs[CHOOSE i \in bad : \A j \in bad : i <= j])
       ELSE Ok([i \in 1..Len(xs) |-> CsvLine(xs[i]).val])

\* The body of the try block after response.json() returned data.
ParseHistory(days, data) ==
    IF data.kind # "list" /\ ~(data.kind = "dict" /\ "historical" \in DOMAIN data.val)
    THEN Raise("ValueError")
    ELSE LET historical == IF data.kind = "list" THEN data ELSE data.val["historical"]
         IN IF ~Truthy(historical) THEN Raise("ValueError")
            ELSE LET srt == sorted(historical)
                 IN IF srt.kind = "raise" THEN srt
                    ELSE LET cut == LastDays(srt.val, days)
                             latest_close == float(DictGet(cut[Len(cut)].val, "close", JNum(0)))
                             lines == CsvLines(cut)
                         IN IF latest_close.kind = "raise" THEN latest_close
                            ELSE IF lines.kind = "raise" THEN lines
                            ELSE Ok([csv |-> lines.val, latest_close |-> latest_close.val])

fetch_spx_ohlc_csv(days, http) ==
    IF http.kind = "raise" THEN http ELSE ParseHistory(days, http.val)

\* ------------------------------------------------ openrouter_analysis.py
\* The text of a reply: text that json.loads decodes to a value, text it
\* rejects, or the empty string.  Strings inside a decoded reply are tuples
\* of characters.
Doc(v) == [doc |-> "json", value |-> v]
InvalidDoc == [doc |-> "invalid"]
EmptyDoc == [doc |-> "empty"]

json_loads(text) ==
    IF text.doc = "json" THEN Ok(text.value) ELSE Raise("JSONDecodeError")

\* not isinstance(x, str) or not x.strip()
BlankOrNotStr(x) == x.kind # "str" \/ strip(x.val) = <<>>

RECURSIVE bullet_lines_NoTrim(_)
\* the loop appending the item as it came
bullet_lines_NoTrim(items) ==
    IF items = <<>> THEN <<>>
    ELSE LET rest == bullet_lines_NoTrim(Tail(items))
         IN IF BlankOrNotStr(Head(items)) THEN rest
            ELSE <<[label |-> "- ", text |-> Head(items).val]>> \o rest

RECURSIVE bullet_lines(_)
\* the loop over implications: items that are not str or are blank are skipped
bullet_lines(items) ==
    IF items = <<>> THEN <<>>
    ELSE LET rest == bullet_lines(Tail(items))
         IN IF BlankOrNotStr(Head(items)) THEN rest
            ELSE <<[label |-> "- ", text |-> strip(Head(items).val)]>> \o rest

\* the f-string of lines 153-158, one record per line of the text
FormattedText(zero_gamma, trend, bullets) ==
    << [label |-> "**Zero Gamma**: ", text |-> strip(zero_gamma.val)],
       [label |-> "**Trend**: ", text |-> strip(trend.val)],
       [label |-> "**Implications**:", text |-> <<>>] >> \o bullets

format_structured_analysis(analysis) ==
    LET loaded == json_loads(analysis)
    IN IF loaded.kind = "raise" THEN Raise("ValueError")
       ELSE LET payload == loaded.val
            IN IF payload.kind # "dict" THEN Raise("AttributeError")
               ELSE LET zero_gamma == DictGet(payload.val, "zero_gamma_significance", JNull)
                        trend == DictGet(payload.val, "trend", JNull)
                        implications == DictGet(payload.val, "implications", JNull)
                    IN IF BlankOrNotStr(zero_gamma) THEN Raise("ValueError")
                       ELSE IF BlankOrNotStr(trend) THEN Raise("ValueError")
                       ELSE IF implications.kind # "list" \/ implications.val = <<>>
                       THEN Raise("ValueError")
                       ELSE LET bullets == bullet_lines(implications.val)
                            IN IF bullets = <<>> THEN Raise("ValueError")
                               ELSE Ok(FormattedText(zero_gamma, trend, bullets))

\* `"choices" not in data or not data["choices"]`, then the message built
\* for the ValueError reads data.keys()
ChoicesMissing(data) ==
    CASE data.kind = "dict" ->
           IF "choices" \notin DOMAIN data.val \/ ~Truthy(data.val["choices"])
           THEN Raise("ValueError") ELSE Ok(FALSE)
      [] data.kind \in {"list", "str"} -> Raise("AttributeError")
      [] OTHER -> Raise("TypeError")

\* data["choices"][0].get("message", {}).get("content", "")
FirstContent(data) ==
    LET choices == data.val["choices"]
    IN IF choices.kind # "list" THEN Raise("KeyError")
       ELSE LET choice == choices.val[1]
            IN IF choice.kind # "dict" THEN Raise("AttributeError")
               ELSE IF "message" \notin DOMAIN choice.val THEN Ok(JStr(EmptyDoc))
               ELSE LET message == choice.val["message"]
                    IN IF message.kind # "dict" THEN Raise("AttributeError")
                       ELSE Ok(DictGet(message.val, "content", JStr(EmptyDoc)))

\* `not analysis` for the content of a message
ContentFalsy(c) ==
    CASE c.kind = "str" -> c.val = EmptyDoc
      [] c.kind = "null" -> TRUE
      [] OTHER -> FALSE

\* The body of the try block after response.json() returned data.
ParseCompletion(data) ==
    LET miss == ChoicesMissing(data)
    IN IF miss.kind = "raise" THEN miss
       ELSE LET content == FirstContent(data)
            IN IF content.kind = "raise" THEN content
               ELSE IF ContentFalsy(content.val) THEN Raise("ValueError")
               ELSE IF content.val.kind # "str" THEN Raise("TypeError")
               ELSE format_structured_analysis(content.val.val)

analyze_with_openrouter(http) ==
    IF http.kind = "raise" THEN http ELSE ParseCompletion(http.val)

\* ------------------------------------------------- what the providers send
\* requests.get / requests.post, raise_for_status and response.json() raising
TransportErrors ==
    {Raise("Timeout"), Raise("HTTPError"), Raise("ConnectionError"), Raise("JSONDecodeError")}

OptionalField(key, values) == {{}} \cup {{<<key, v>>} : v \in values}

StrikeValues ==
    {JNum(5800500), JStr("5800.5"), JStr("abc"), JNull, JBool(TRUE), JList(<<>>)}

MetricRows ==
    {JDict(MkDict(s \cup y \cup t)) :
        s \in OptionalField("zero_g_strike", StrikeValues),
        y \in OptionalField("sym", {JStr("SPX")}),
        t \in OptionalField("trade_date", {JStr("2024-01-02")})}
    \cup {JStr("abc"), JStr("zero_g_strike"), JNum(1), JNull,
          JList(<<>>), JList(<<JStr("zero_g_strike")>>)}

GoodMetricRow == JDict(MkDict({<<"zero_g_strike", JNum(5800500)>>, <<"sym", JStr("SPX")>>}))

MetricBodies ==
    {JList(<<>>)} \cup {JList(<<r>>) : r \in MetricRows}
    \cup {JList(<<r, GoodMetricRow>>) : r \in MetricRows}
    \cup {JNull, JNum(5800500), JStr("zero_g_strike"), GoodMetricRow}

MetricHttp == TransportErrors \cup {Ok(b) : b \in MetricBodies}

\* Price records: well-formed bars, and entries that are not.
Bar(date, close) ==
    JDict(MkDict({<<"date", date>>, <<"open", JNum(4490004)>>, <<"high", JNum(4510006)>>,
                  <<"low", JNum(4480000)>>, <<"close", close>>}))

Closes == {JNum(4500254), JNum(4500256)}

GoodBars == {Bar(JStr(Dates[i]), c) : i \in 1..Len(Dates), c \in Closes}

Drop(record, key) == JDict([k \in DOMAIN record.val \ {key} |-> record.val[k]])

BadBars ==
    LET b == Bar(JStr(Dates[2]), JNum(4500254))
    IN {Drop(b, "date"), Drop(b, "close"), Drop(b, "open"),
        Bar(JStr(Dates[2]), JNull), Bar(JStr(Dates[2]), JStr("5795")),
        Bar(JNull, JNum(4500254)), JStr("abc"), JNull}

BarLists == SeqsUpTo(GoodBars \cup BadBars, MaxBars)

PriceBodies ==
    {JList(xs) : xs \in BarLists}
    \cup {JDict(MkDict({<<"historical", h>>})) :
            h \in {JList(<<>>), JNull, JStr("abc"), JNum(1)}
                  \cup {JList(<<b>>) : b \in GoodBars \cup BadBars}}
    \cup {JDict(MkDict({<<"symbol", JStr("^GSPC")>>})), JNull, JStr("abc"), JNum(1)}

PriceHttp == TransportErrors \cup {Ok(b) : b \in PriceBodies}

Days == 0..MaxDays

\* Replies of the model.
FieldValues == {JNull, JNum(1), JStr(<<>>), JStr(<<" ">>), JStr(<<"a">>), JStr(<<" ", "a">>)}

ItemValues == {JStr(<<>>), JStr(<<" ">>), JStr(<<"a">>), JStr(<<" ", "b", " ">>), JNum(1)}

\* implications ["a", "", "  b  "]: a kept item, an empty one, one to trim
MixedItems == <<JStr(<<"a">>), JStr(<<>>), JStr(<<" ", "b", " ">>)>>

\* a list longer than the two to four bullets the prompt asks for
LongItems == [i \in 1..5 |-> JStr(<<"a">>)]

ImplicationValues ==
    {JNull, JStr(<<"a">>), JList(MixedItems), JList(LongItems)}
    \cup {JList(xs) : xs \in SeqsUpTo(ItemValues, MaxItems)}

ReplyObjects ==
    {JDict(MkDict(z \cup t \cup i)) :
        z \in OptionalField("zero_gamma_significance", FieldValues),
        t \in OptionalField("trend", FieldValues),
        i \in OptionalField("implications", ImplicationValues)}

ReplyValues ==
    ReplyObjects \cup {JList(<<>>), JList(<<JStr(<<"a">>)>>), JStr(<<"a">>), JNum(1), JNull}

Contents ==
    {JStr(Doc(v)) : v \in ReplyValues} \cup {JStr(InvalidDoc), JStr(EmptyDoc), JNull, JList(<<>>)}

Completion(choices) == JDict(MkDict({<<"choices", choices>>}))

Choice(content) ==
    JDict(MkDict({<<"message", JDict(MkDict({<<"role", JStr(<<"a">>)>>, <<"content", content>>}))>>}))

CompletionBodies ==
    {Completion(JList(<<Choice(c)>>)) : c \in Contents}
    \cup {Completion(JList(<<>>)), Completion(JNull),
          Completion(JList(<<JDict(MkDict({}))>>)),
          Completion(JList(<<JDict(MkDict({<<"message", JDict(MkDict({}))>>}))>>)),
          Completion(JList(<<JNull>>)),
          JDict(MkDict({<<"error", JStr(<<"a">>)>>})), JList(<<>>), JNull}

CompletionHttp == TransportErrors \cup {Ok(b) : b \in CompletionBodies}

\* What the orchestrator is fed in one run: every transport failure, a user
\* interrupt, and bodies of each shape.
PipelineMetricHttp ==
    TransportErrors \cup {Raise("KeyboardInterrupt")}
    \cup {Ok(b) : b \in {JList(<<>>), JNull, JList(<<GoodMetricRow>>),
                         JList(<<JDict(MkDict({<<"zero_g_strike", JStr("5800.5")>>}))>>),
                         JList(<<JDict(MkDict({<<"zero_g_strike", JNull>>}))>>),
                         JList(<<JDict(MkDict({<<"sym", JStr("SPX")>>}))>>)}}

PipelinePriceHttp ==
    TransportErrors \cup {Raise("KeyboardInterrupt")}
    \cup {Ok(b) : b \in {JList(<<>>), JNull,
                         JList(<<Bar(JStr(Dates[2]), JNum(4500256)), Bar(JStr(Dates[1]), JNum(4500254))>>),
                         JList(<<Bar(JStr(Dates[1]), JNum(4500254))>>),
                         JList(<<Bar(JStr(Dates[1]), JNull)>>),
                         JList(<<JStr("abc")>>)}}

GoodReply(items) ==
    JDict(MkDict({<<"zero_gamma_significance", JStr(<<"a">>)>>, <<"trend", JStr(<<" ", "a">>)>>,
                  <<"implications", JList(items)>>}))

PipelineCompletionHttp ==
    TransportErrors \cup {Raise("KeyboardInterrupt")}
    \cup {Ok(Completion(JList(<<Choice(c)>>))) :
            c \in {JStr(Doc(GoodReply(<<JStr(<<"a">>)>>))),
                   JStr(Doc(GoodReply(<<JStr(<<"a">>), JStr(<<>>)>>))),
                   JStr(Doc(GoodReply(<<>>))), JStr(Doc(JList(<<>>))),
                   JStr(InvalidDoc), JStr(EmptyDoc)}}
    \cup {Ok(Completion(JList(<<>>)))}

\* DEFAULT_SYM as a str
DefaultSymbol == <<"S", "P", "X">>

\* Arguments of format_analysis_message: narrative texts with stars, an angle
\* bracket, blanks and line breaks, some longer texts, and symbols with and
\* without characters that are special in markup.
TextChars == {"*", "<", "a", " ", "\n"}

LongTexts ==
    {<<"*", "*", "Z", "*", "*", ":", " ", "a", "<", "b", " ", "&", " ", "c", "\n", "-", " ", "x", " ", "*", "*", "y", "*", "*", " ", "*", "*", "\n", "*", " ", "*", "*", "*", "*", "*", "*", " ", "z">>,
     <<"a", " ", ">", " ", "b", " ", "&", "&", " ", "\"", "c", "\"", " ", "'", "d", "'">>,
     <<"*", "*", " ", "*", "*", "a", "*", "*", " ", "*", "*">>,
     <<"*", "*", "*", "a", "*", "*", "*", " ", " ", "*", "*", "a", "*", "*", "*", "*", "b", "*", "*">>,
     <<" ", "\n", " ", " ", "x", " ", "*", "*", "a", "*", "*", " ", " ", "\n", "\n">>}

NarrativeTexts == SeqsUpTo(TextChars, MaxTextLen) \cup LongTexts

Symbols == {DefaultSymbol, <<"<">>, <<">">>, <<"&">>, <<"<", "b", ">">>, <<"S", "&", "P">>}

MessageArgs ==
    {[symbol |-> DefaultSymbol, analysis |-> t, zero_gamma_level |-> 5800500,
      current_price |-> 4500254] : t \in NarrativeTexts}
    \cup {[symbol |-> y, analysis |-> t, zero_gamma_level |-> 5800500,
           current_price |-> 4500256] : y \in Symbols, t \in LongTexts}

\* What the destination does with one request of the bot.
BotOutcomes ==
    {Ok(TRUE)} \cup {Raise(e) : e \in {"TelegramError", "RuntimeError", "OSError", "KeyboardInterrupt"}}

\* ---------------------------------------------------------------- state
VARIABLES
    entry,              \* the public function this run calls
    pc,                 \* where control is
    environ,            \* os.environ, the four required variables
    arg,                \* the argument of a directly called function
    ret,                \* what the directly called function produced
    net,                \* the remote operations started so far, in order
    log,                \* the log records written so far, in order
    exit_code,          \* sys.exit code of main, None while running
    locals,             \* run_analysis_pipeline: config and step results
    chat_id,            \* send_to_telegram: chat_id argument
    message_thread_id,  \* send_to_telegram: message_thread_id argument
    ids,                \* send_to_telegram: chat_id_int and topic_id_int
    running_loop,       \* asyncio: an event loop is running in this thread
    current_loop,       \* asyncio policy: "unset", "set" or "none"
    runner,             \* what drives the coroutine: "run" or "fallback"
    exc                 \* the exception in flight, "none" if there is none

vars == <<entry, pc, environ, arg, ret, net, log, exit_code, locals, chat_id,
          message_thread_id, ids, running_loop, current_loop, runner, exc>>

sendVars == <<chat_id, message_thread_id, ids, running_loop, current_loop, runner>>

Ids == SeqsUpTo(Chars, MaxIdLen)

Secrets == {None, Some(<<>>), Some(<<"a">>)}

Environs ==
    {[v \in RequiredSet |-> IF v = "TELEGRAM_CHAT_ID" THEN c
                            ELSE IF v = "FMP_API_KEY" THEN f
                            ELSE IF v = "OPENROUTER_API_KEY" THEN o ELSE t] :
        f \in Secrets, o \in Secrets, t \in Secrets, c \in {None} \cup {Some(i) : i \in Ids}}

NoEnviron == [v \in RequiredSet |-> None]
NoLocals == [step |-> 0]
NoIds == [chat_id_int |-> 0, topic_id_int |-> None]

Idle(e, first) ==
    /\ entry = e
    /\ pc = first
    /\ ret = None
    /\ net = <<>>
    /\ log = <<>>
    /\ exit_code = None
    /\ locals = NoLocals
    /\ ids = NoIds
    /\ runner = "none"
    /\ exc = "none"

InitMain ==
    /\ Idle("main", "main")
    /\ environ \in Environs
    /\ arg = None
    /\ chat_id = <<>>
    /\ message_thread_id = None
    /\ running_loop = FALSE
    /\ current_loop = "unset"

InitSend ==
    /\ Idle("send_to_telegram", "send_to_telegram")
    /\ environ = NoEnviron
    /\ arg = None
    /\ chat_id \in Ids
    /\ message_thread_id \in {None} \cup {Some(i) : i \in Ids}
    /\ running_loop \in BOOLEAN
    /\ current_loop \in IF running_loop THEN {"set"} ELSE {"unset", "set", "none"}

InitCall ==
    /\ \/ Idle("fetch_zerogamma_level", "call") /\ arg \in MetricHttp
       \/ Idle("fetch_spx_ohlc_csv", "call")
            /\ arg \in {[days |-> d, http |-> h] : d \in Days, h \in PriceHttp}
       \/ Idle("analyze_with_openrouter", "call") /\ arg \in CompletionHttp
       \/ Idle("format_analysis_message", "call") /\ arg \in MessageArgs
    /\ environ = NoEnviron
    /\ chat_id = <<>>
    /\ message_thread_id = None
    /\ running_loop = FALSE
    /\ current_loop = "unset"

Init == InitMain \/ InitSend \/ InitCall

\* ---------------------------------------------------------- log records
\* The except clauses of the three fetch functions log and re-raise.
MetricHandled == RequestExceptions \cup {"KeyError", "ValueError", "TypeError"}
Handled == RequestExceptions \cup {"KeyError", "ValueError"}

\* the records one fetch function writes for its result r
StepLog(r, handled, info, error) ==
    IF r.kind = "ok" THEN <<info>>
    ELSE IF r.exc \in handled THEN <<error>> ELSE <<>>

MetricLog(r) == StepLog(r, MetricHandled, "INFO fetched zero gamma level", "ERROR SpotGamma")
PriceLog(r) == StepLog(r, Handled, "INFO fetched OHLC data", "ERROR FMP")
NarrativeLog(r) == StepLog(r, Handled, "INFO received analysis", "ERROR OpenRouter")

\* -------------------------------------------- directly called functions
CallFetchZerogammaLevel ==
    /\ entry = "fetch_zerogamma_level" /\ pc = "call"
    /\ net' = Append(net, [op |-> "GET levelsBySym", reply |-> arg])
    /\ ret' = Some(fetch_zerogamma_level(DEFAULT_SYM, arg))
    /\ log' = log \o MetricLog(fetch_zerogamma_level(DEFAULT_SYM, arg))
    /\ pc' = "done"
    /\ UNCHANGED <<entry, environ, arg, exit_code, locals, sendVars, exc>>

CallFetchSpxOhlcCsv ==
    /\ entry = "fetch_spx_ohlc_csv" /\ pc = "call"
    /\ net' = Append(net, [op |-> "GET historical-price-eod", reply |-> arg.http])
    /\ ret' = Some(fetch_spx_ohlc_csv(arg.days, arg.http))
    /\ log' = log \o PriceLog(fetch_spx_ohlc_csv(arg.days, arg.http))
    /\ pc' = "done"
    /\ UNCHANGED <<entry, environ, arg, exit_code, locals, sendVars, exc>>

CallAnalyzeWithOpenrouter ==
    /\ entry = "analyze_with_openrouter" /\ pc = "call"
    /\ net' = Append(net, [op |-> "POST chat/completions", reply |-> arg])
    /\ ret' = Some(analyze_with_openrouter(arg))
    /\ log' = log \o NarrativeLog(analyze_with_openrouter(arg))
    /\ pc' = "done"
    /\ UNCHANGED <<entry, environ, arg, exit_code, locals, sendVars, exc>>

\* ------------------------------------------------------ telegram_sender
\* send_to_telegram returns value: to the orchestrator, or to the caller.
SendReturns(value) ==
    /\ ret' = Some(Ok(value))
    /\ pc' = IF entry = "main" THEN "after_send" ELSE "done"

\* An exception that send_to_telegram does not catch leaves it.
SendPropagates(e) ==
    /\ ret' = Some(Raise(e))
    /\ pc' = IF entry = "main" THEN "main_interrupt" ELSE "done"

\* line 70, `if message_thread_id:`
thread_given_Never(thread) == FALSE

thread_given(thread) == thread # None /\ thread[1] # <<>>

\* lines 61-77: both identifiers are parsed before anything is sent
SendParseIds ==
    /\ pc = "send_to_telegram"
    /\ LET c == int(chat_id)
           t == IF thread_given(message_thread_id)
                THEN int(message_thread_id[1]) ELSE Ok(0)
       IN IF c.kind = "raise"
          THEN /\ log' = Append(log, "ERROR Invalid chat ID format")
               /\ SendReturns(FALSE)
               /\ ids' = ids
          ELSE IF t.kind = "raise"
          THEN /\ log' = Append(log, "ERROR Invalid message_thread_id format")
               /\ SendReturns(FALSE)
               /\ ids' = [ids EXCEPT !.chat_id_int = c.val]
          ELSE /\ log' = log
               /\ ret' = ret
               /\ pc' = "asyncio_run"
               /\ ids' = [chat_id_int |-> c.val,
                          topic_id_int |-> IF thread_given(message_thread_id)
                                           THEN Some(t.val) ELSE None]
    /\ UNCHANGED <<entry, environ, arg, net, exit_code, locals, chat_id, message_thread_id,
                   running_loop, current_loop, runner, exc>>

\* line 81, asyncio.run(coro): refused when a loop is running in this thread
\* (RuntimeError, the coroutine is not started), else a new loop is made
\* current and runs the coroutine.
AsyncioRun ==
    /\ pc = "asyncio_run"
    /\ IF running_loop
       THEN /\ pc' = "fallback"
            /\ exc' = "RuntimeError"
            /\ UNCHANGED <<current_loop, runner>>
       ELSE /\ pc' = "bot_enter"
            /\ current_loop' = "set"
            /\ runner' = "run"
            /\ exc' = "none"
    /\ UNCHANGED <<entry, environ, arg, ret, net, log, exit_code, locals, chat_id,
                   message_thread_id, ids, running_loop>>

\* line 33, `async with Bot(token) as bot`: entering initializes the bot,
\* which asks the destination who the bot is.
BotEnter ==
    /\ pc = "bot_enter"
    /\ \E outcome \in BotOutcomes :
         /\ net' = Append(net, [op |-> "getMe", reply |-> outcome])
         /\ IF outcome.kind = "ok"
            THEN pc' = "send_message" /\ exc' = "none"
            ELSE pc' = "coroutine_done" /\ exc' = outcome.exc
    /\ UNCHANGED <<entry, environ, arg, ret, log, exit_code, locals, sendVars>>

\* lines 34-39, bot.send_message, then the bot is shut down on leaving
SendMessage ==
    /\ pc = "send_message"
    /\ \E outcome \in BotOutcomes :
         /\ net' = Append(net, [op |-> "sendMessage", reply |-> outcome])
         /\ exc' = IF outcome.kind = "ok" THEN "none" ELSE outcome.exc
    /\ pc' = "coroutine_done"
    /\ UNCHANGED <<entry, environ, arg, ret, log, exit_code, locals, sendVars>>

\* asyncio.get_event_loop(): the running loop, else the policy's current
\* loop; RuntimeError when the current loop was set to None.
get_event_loop_Fresh(running, current) == Ok("loop")

get_event_loop(running, current) ==
    IF running \/ current # "none" THEN Ok("loop") ELSE Raise("RuntimeError")

\* lines 103-108: TelegramError and every other Exception are caught
Catches_TelegramOnly(e) == e = "TelegramError"

Catches(e) == e # "KeyboardInterrupt"

\* The coroutine ended and control is back in send_to_telegram: asyncio.run
\* closes its loop and sets the current loop to None; then lines 89-108.
CoroutineDone ==
    /\ pc = "coroutine_done"
    /\ current_loop' = IF runner = "run" THEN "none" ELSE current_loop
    /\ IF exc = "none"
       THEN /\ log' = Append(log, "INFO sent message")
            /\ SendReturns(TRUE)
            /\ exc' = exc
       ELSE IF exc = "RuntimeError" /\ runner = "run"
       THEN /\ pc' = "fallback"
            /\ UNCHANGED <<log, ret, exc>>
       ELSE IF ~Catches(exc)
       THEN /\ SendPropagates(exc)
            /\ UNCHANGED <<log, exc>>
       ELSE /\ log' = Append(log, IF exc = "TelegramError" THEN "ERROR Telegram API error"
                                  ELSE "ERROR Unexpected error while sending Telegram message")
            /\ SendReturns(FALSE)
            /\ exc' = "none"
    /\ UNCHANGED <<entry, environ, arg, net, exit_code, locals, chat_id, message_thread_id,
                   ids, running_loop, runner>>

\* lines 89-98, except RuntimeError: get_event_loop, then run_until_complete,
\* which refuses a loop that is already running (RuntimeError); either
\* RuntimeError is caught at line 106.
Fallback ==
    /\ pc = "fallback"
    /\ IF get_event_loop(running_loop, current_loop).kind = "raise" \/ running_loop
       THEN /\ log' = Append(log, IF running_loop
                                  THEN "ERROR Unexpected error: This event loop is already running"
                                  ELSE "ERROR Unexpected error: There is no current event loop")
            /\ SendReturns(FALSE)
            /\ exc' = "none"
            /\ runner' = runner
       ELSE /\ pc' = "bot_enter"
            /\ runner' = "fallback"
            /\ exc' = "none"
            /\ UNCHANGED <<log, ret>>
    /\ UNCHANGED <<entry, environ, arg, net, exit_code, locals, chat_id, message_thread_id,
                   ids, running_loop, current_loop>>

\* ------------------------------ telegram_sender.format_analysis_message
\* A str is a tuple of characters.  Bullet stands for the bullet glyph written
\* by line 176, which holds no character that is special in markup.
Bullet == "BULLET"

\* s[n:]
DropFirst(s, n) == SubSeq(s, n + 1, Len(s))

\* s.startswith(prefix)
startswith(s, prefix) == Len(s) >= Len(prefix) /\ SubSeq(s, 1, Len(prefix)) = prefix

\* html.escape(text), quote=True
EscapeChar(c) ==
    CASE c = "&" -> <<"&", "a", "m", "p", ";">>
      [] c = "<" -> <<"&", "l", "t", ";">>
      [] c = ">" -> <<"&", "g", "t", ";">>
      [] c = "\"" -> <<"&", "q", "u", "o", "t", ";">>
      [] c = "'" -> <<"&", "#", "x", "2", "7", ";">>
      [] OTHER -> <<c>>

RECURSIVE html_escape(_)
html_escape(text) ==
    IF text = <<>> THEN <<>> ELSE EscapeChar(Head(text)) \o html_escape(Tail(text))

RECURSIVE splitlines(_)
\* str.splitlines(): the lines without their line break; a final line break
\* opens no further line
splitlines(text) ==
    IF text = <<>> THEN <<>>
    ELSE IF \E i \in 1..Len(text) : text[i] = "\n"
    THEN LET i == CHOOSE i \in 1..Len(text) :
                    text[i] = "\n" /\ \A j \in 1..(i - 1) : text[j] # "\n"
         IN <<SubSeq(text, 1, i - 1)>> \o splitlines(DropFirst(text, i))
    ELSE <<text>>

RECURSIVE join(_)
\* "\n".join(lines)
join(lines) ==
    IF lines = <<>> THEN <<>>
    ELSE IF Len(lines) = 1 THEN lines[1]
    ELSE lines[1] \o <<"\n">> \o join(Tail(lines))

RECURSIVE convert_bold_markdown(_)
\* re.sub(r"\*\*(.+?)\*\*", r"<b>\1</b>", text): the leftmost pair of stars
\* that is followed, after at least one character, by another pair; the
\* nearest such pair closes it; the search goes on behind the match
convert_bold_markdown(text) ==
    IF text = <<>> THEN <<>>
    ELSE LET closers == {k \in 4..(Len(text) - 1) : text[k] = "*" /\ text[k + 1] = "*"}
         IN IF startswith(text, <<"*", "*">>) /\ closers # {}
            THEN LET k == CHOOSE k \in closers : \A j \in closers : k <= j
                 IN <<"<", "b", ">">> \o SubSeq(text, 3, k - 1) \o <<"<", "/", "b", ">">>
                    \o convert_bold_markdown(DropFirst(text, k + 1))
            ELSE <<Head(text)>> \o convert_bold_markdown(Tail(text))

\* _convert_line, lines 172-177
convert_line(line) ==
    LET stripped == lstrip(line)
    IN IF startswith(stripped, <<"*", " ">>) \/ startswith(stripped, <<"-", " ">>)
       THEN <<Bullet, " ">> \o convert_bold_markdown(strip(DropFirst(stripped, 2)))
       ELSE convert_bold_markdown(line)

\* _normalize_analysis_for_telegram, lines 159-162
normalize_analysis_for_telegram(text) ==
    LET lines == splitlines(html_escape(text))
    IN strip(join([i \in 1..Len(lines) |-> convert_line(lines[i])]))

Digit(d) == <<"0", "1", "2", "3", "4", "5", "6", "7", "8", "9">>[d + 1]

RECURSIVE DigitsOf(_)
\* the decimal digits of a natural number
DigitsOf(n) == IF n < 10 THEN <<Digit(n)>> ELSE Append(DigitsOf(n \div 10), Digit(n % 10))

\* f"{x:.2f}" of a float held in thousandths
FormatFloat2(x) ==
    LET f == Fmt2(x)
    IN DigitsOf(f[1]) \o <<".", Digit(f[2] \div 10), Digit(f[2] % 10)>>

\* datetime.now().strftime("%Y-%m-%d")
Timestamps == {<<"2", "0", "2", "4", "-", "0", "1", "-", "0", "2">>}

\* format_analysis_message, lines 129-143; now is the date the clock gave
format_analysis_message(zero_gamma_level, analysis, current_price, symbol, now) ==
    <<"<", "b", ">">> \o symbol \o <<" ", "M", "a", "r", "k", "e", "t", " ", "A", "n", "a", "l", "y", "s", "i", "s", "<", "/", "b", ">", "\n">>
    \o <<"<", "i", ">">> \o now \o <<"<", "/", "i", ">", "\n", "\n">>
    \o <<"<", "b", ">", "C", "u", "r", "r", "e", "n", "t", " ", "P", "r", "i", "c", "e", ":", "<", "/", "b", ">", " ", "$">> \o FormatFloat2(current_price) \o <<"\n">>
    \o <<"<", "b", ">", "Z", "e", "r", "o", " ", "G", "a", "m", "m", "a", " ", "L", "e", "v", "e", "l", ":", "<", "/", "b", ">", " ", "$">> \o FormatFloat2(zero_gamma_level) \o <<"\n", "\n">>
    \o <<"<", "b", ">", "A", "n", "a", "l", "y", "s", "i", "s", ":", "<", "/", "b", ">", "\n">>
    \o normalize_analysis_for_telegram(analysis)

CallFormatAnalysisMessage ==
    /\ entry = "format_analysis_message" /\ pc = "call"
    /\ \E now \in Timestamps :
         ret' = Some(Ok(format_analysis_message(arg.zero_gamma_level, arg.analysis,
                                                arg.current_price, arg.symbol, now)))
    /\ pc' = "done"
    /\ UNCHANGED <<entry, environ, arg, net, log, exit_code, locals, sendVars, exc>>

\* The characters of the labels written by _format_structured_analysis.
LabelChars(label) ==
    CASE label = "**Zero Gamma**: " -> <<"*", "*", "Z", "e", "r", "o", " ", "G", "a", "m", "m", "a", "*", "*", ":", " ">>
      [] label = "**Trend**: " -> <<"*", "*", "T", "r", "e", "n", "d", "*", "*", ":", " ">>
      [] label = "**Implications**:" -> <<"*", "*", "I", "m", "p", "l", "i", "c", "a", "t", "i", "o", "n", "s", "*", "*", ":">>
      [] label = "- " -> <<"-", " ">>

\* The str returned by _format_structured_analysis, lines 153-159: its lines
\* joined by line breaks.
formatted(lines) == join([i \in 1..Len(lines) |-> LabelChars(lines[i].label) \o lines[i].text])

\* ------------------------------------------------------ send_analysis.py
\* the days argument of the orchestrator's price-history call
PipelineDays == 30

\* A step of run_analysis_pipeline ended with result r: an Exception goes to
\* the handler of line 243, anything else leaves the function.
StepRaises(r) ==
    /\ exc' = r.exc
    /\ pc' = IF r.exc = "KeyboardInterrupt" THEN "main_interrupt" ELSE "pipeline_except"
    /\ locals' = locals

\* main, lines 264-279 and 289-291: the configuration is read first
MainGetConfig ==
    /\ entry = "main" /\ pc = "main"
    /\ LET config == get_config(environ)
       IN IF config.kind = "raise"
          THEN /\ log' = log \o <<"INFO Starting", "ERROR Configuration error">>
               /\ exit_code' = Some(1)
               /\ pc' = "exited"
               /\ locals' = locals
          ELSE /\ log' = Append(log, "INFO Starting")
               /\ exit_code' = exit_code
               /\ pc' = "step1"
               /\ locals' = [step |-> 1, config |-> config.val]
    /\ UNCHANGED <<entry, environ, arg, ret, net, sendVars, exc>>

\* Step 1, lines 202-203
FetchMetric ==
    /\ entry = "main" /\ pc = "step1"
    /\ \E http \in PipelineMetricHttp :
         /\ net' = Append(net, [op |-> "GET levelsBySym", reply |-> http])
         /\ LET r == fetch_zerogamma_level(DEFAULT_SYM, http)
            IN /\ log' = log \o <<"INFO Step 1">> \o MetricLog(r)
               /\ IF r.kind = "ok"
                  THEN /\ locals' = [step |-> 2, config |-> locals.config, zero_gamma_level |-> r.val]
                       /\ pc' = "step2"
                       /\ exc' = exc
                  ELSE StepRaises(r)
    /\ UNCHANGED <<entry, environ, arg, ret, exit_code, sendVars>>

\* Step 2, lines 206-207
FetchHistory ==
    /\ entry = "main" /\ pc = "step2"
    /\ \E http \in PipelinePriceHttp :
         /\ net' = Append(net, [op |-> "GET historical-price-eod", reply |-> http])
         /\ LET r == fetch_spx_ohlc_csv(PipelineDays, http)
            IN /\ log' = log \o <<"INFO Step 2">> \o PriceLog(r)
               /\ IF r.kind = "ok"
                  THEN /\ locals' = [step |-> 3, config |-> locals.config,
                                     zero_gamma_level |-> locals.zero_gamma_level,
                                     ohlc_csv |-> r.val.csv, current_price |-> r.val.latest_close]
                       /\ pc' = "step3"
                       /\ exc' = exc
                  ELSE StepRaises(r)
    /\ UNCHANGED <<entry, environ, arg, ret, exit_code, sendVars>>

\* Step 3, lines 210-216
Narrate ==
    /\ entry = "main" /\ pc = "step3"
    /\ \E http \in PipelineCompletionHttp :
         /\ net' = Append(net, [op |-> "POST chat/completions", reply |-> http])
         /\ LET r == analyze_with_openrouter(http)
            IN /\ log' = log \o <<"INFO Step 3">> \o NarrativeLog(r)
               /\ IF r.kind = "ok"
                  THEN /\ locals' = [step |-> 4, config |-> locals.config,
                                     zero_gamma_level |-> locals.zero_gamma_level,
                                     ohlc_csv |-> locals.ohlc_csv,
                                     current_price |-> locals.current_price, analysis |-> r.val]
                       /\ pc' = "step4"
                       /\ exc' = exc
                  ELSE StepRaises(r)
    /\ UNCHANGED <<entry, environ, arg, ret, exit_code, sendVars>>

\* Step 4, lines 219-231: the message is formatted and send_to_telegram is
\* called with the configured chat id and no thread id.
FormatAndDispatch ==
    /\ entry = "main" /\ pc = "step4"
    /\ log' = Append(log, "INFO Step 4")
    /\ \E now \in Timestamps :
         locals' = [step |-> 5, config |-> locals.config,
                    message |-> format_analysis_message(locals.zero_gamma_level.zero_g_strike,
                                    formatted(locals.analysis), locals.current_price,
                                    DefaultSymbol, now)]
    /\ chat_id' = locals.config["TELEGRAM_CHAT_ID"]
    /\ message_thread_id' = None
    /\ pc' = "send_to_telegram"
    /\ UNCHANGED <<entry, environ, arg, ret, net, exit_code, ids, running_loop,
                   current_loop, runner, exc>>

\* what run_analysis_pipeline returns once send_to_telegram returned success
PipelineResult_FailOnDispatch(success) == success

PipelineResult(success) == TRUE

\* lines 233-241
PipelineReturn ==
    /\ entry = "main" /\ pc = "after_send"
    /\ log' = Append(log, IF ret[1].val THEN "INFO Pipeline completed successfully"
                          ELSE "WARNING Telegram notification failed")
    /\ locals' = [step |-> 6, result |-> PipelineResult(ret[1].val)]
    /\ pc' = "main_exit"
    /\ UNCHANGED <<entry, environ, arg, ret, net, exit_code, sendVars, exc>>

\* line 245
FailureResult_True == TRUE

FailureResult == FALSE

\* lines 243-245
PipelineExcept ==
    /\ entry = "main" /\ pc = "pipeline_except"
    /\ log' = Append(log, "ERROR Pipeline failed at step")
    /\ locals' = [step |-> 6, result |-> FailureResult]
    /\ exc' = "none"
    /\ pc' = "main_exit"
    /\ UNCHANGED <<entry, environ, arg, ret, net, exit_code, sendVars>>

\* lines 281-287
MainExit ==
    /\ entry = "main" /\ pc = "main_exit"
    /\ log' = Append(log, IF locals.result THEN "INFO Pipeline execution completed successfully"
                          ELSE "ERROR Pipeline execution failed")
    /\ exit_code' = Some(IF locals.result THEN 0 ELSE 1)
    /\ pc' = "exited"
    /\ UNCHANGED <<entry, environ, arg, ret, net, locals, sendVars, exc>>

\* lines 292-294
MainInterrupt ==
    /\ entry = "main" /\ pc = "main_interrupt"
    /\ log' = Append(log, "INFO Pipeline interrupted by user")
    /\ exit_code' = Some(130)
    /\ exc' = "none"
    /\ pc' = "exited"
    /\ UNCHANGED <<entry, environ, arg, ret, net, locals, sendVars>>

Next ==
    \/ CallFetchZerogammaLevel
    \/ CallFetchSpxOhlcCsv
    \/ CallAnalyzeWithOpenrouter
    \/ CallFormatAnalysisMessage
    \/ SendParseIds
    \/ AsyncioRun
    \/ BotEnter
    \/ SendMessage
    \/ CoroutineDone
    \/ Fallback
    \/ MainGetConfig
    \/ FetchMetric
    \/ FetchHistory
    \/ Narrate
    \/ FormatAndDispatch
    \/ PipelineReturn
    \/ PipelineExcept
    \/ MainExit
    \/ MainInterrupt

Spec == Init /\ [][Next]_vars

\* ------------------------------------------------------------ properties
\* the positions of net at which operation op was started
Started(op) == {i \in 1..Len(net) : net[i].op = op}

BotOps == {"getMe", "sendMessage"}

\* send_to_telegram has been called in this run
SendCalled ==
    entry = "send_to_telegram" \/ (entry = "main" /\ (locals.step = 5 \/ ret # None))

\* send_to_telegram has returned value
SendReturned(value) == SendCalled /\ ret # None /\ ret[1].kind = "ok" /\ ret[1].val = value

\* C1: once the metric, the price history, the narrative and the message are
\* there, the run reports success whether send_to_telegram returned True or
\* False: the orchestrator returns True and the process exits with code 0.
C1_DispatchFailureIsNotFatal ==
    (entry = "main" /\ (SendReturned(TRUE) \/ SendReturned(FALSE))) =>
        /\ pc \in {"after_send", "main_exit", "exited"}
        /\ (pc = "main_exit" => locals.result = TRUE)
        /\ (pc = "exited" => exit_code = Some(0))

\* a run whose send-message request failed at the destination and that exited 0
C1_Witness ==
    /\ entry = "main" /\ pc = "exited"
    /\ SendReturned(FALSE)
    /\ \E i \in Started("sendMessage") : net[i].reply = Raise("TelegramError")
    /\ exit_code = Some(0)

\* the result of step i of the orchestrator on the reply http
StepResult(i, http) ==
    CASE i = 1 -> fetch_zerogamma_level(DEFAULT_SYM, http)
      [] i = 2 -> fetch_spx_ohlc_csv(PipelineDays, http)
      [] OTHER -> analyze_with_openrouter(http)

\* the step failed with an error (a user interrupt is not one)
IsError(r) == r.kind = "raise" /\ r.exc # "KeyboardInterrupt"

\* C2: when one of the three fatal steps fails, no later step runs, nothing
\* is sent to the destination, the orchestrator returns False after logging
\* the error, and the process exits with code 1.
C2_FatalFailureAborts ==
    entry = "main" =>
        \A i \in 1..Len(net) :
            (i <= 3 /\ IsError(StepResult(i, net[i].reply))) =>
                /\ Len(net) = i
                /\ pc \in {"pipeline_except", "main_exit", "exited"}
                /\ (pc = "main_exit" => locals.result = FALSE)
                /\ (pc = "exited" =>
                      /\ exit_code = Some(1)
                      /\ \E k \in 1..Len(log) : log[k] = "ERROR Pipeline failed at step")

\* a run that got the metric and the prices, could not parse the narrative
\* and exited 1
C2_Witness ==
    /\ entry = "main" /\ pc = "exited"
    /\ Len(net) = 3
    /\ net[3].reply = Ok(Completion(JList(<<Choice(JStr(InvalidDoc))>>)))
    /\ exit_code = Some(1)

\* the four remote operations of the specification
RemoteOperations ==
    {"GET levelsBySym", "GET historical-price-eod", "POST chat/completions", "sendMessage"}

\* C3: in one run each remote operation is started at most once; one call of
\* send_to_telegram starts the send-message operation at most once, whatever
\* the first attempt raised.
C3_SingleAttempt ==
    \A op \in RemoteOperations : Cardinality(Started(op)) <= 1

\* the send-message request raised RuntimeError under asyncio.run, the
\* except RuntimeError branch was taken, and the message was not sent again
C3_Witness ==
    /\ entry = "send_to_telegram" /\ pc = "done"
    /\ \E i \in Started("sendMessage") : net[i].reply = Raise("RuntimeError")
    /\ log[Len(log)] = "ERROR Unexpected error: There is no current event loop"
    /\ SendReturned(FALSE)

\* C4: send_to_telegram does not let an error of the destination out: when a
\* request of the send raised TelegramError or any other exception it returns
\* False, and it returns True only when send-message completed without error.
C4_SendNeverPropagates ==
    (SendCalled /\ ret # None) =>
        /\ (ret[1].kind = "raise" => ret[1].exc = "KeyboardInterrupt")
        /\ (\E i \in Started("getMe") \cup Started("sendMessage") : IsError(net[i].reply))
              => SendReturned(FALSE)
        /\ SendReturned(TRUE) =>
              /\ Started("sendMessage") # {}
              /\ \A i \in Started("getMe") \cup Started("sendMessage") : net[i].reply = Ok(TRUE)

\* a direct call whose send-message request raised an exception that is not
\* a TelegramError, and that returned False
C4_Witness ==
    /\ entry = "send_to_telegram" /\ pc = "done"
    /\ \E i \in Started("sendMessage") : net[i].reply = Raise("OSError")
    /\ SendReturned(FALSE)

\* an integer string: optional surrounding blanks, an optional sign, digits
IsIntegerString(s) ==
    \E a \in 1..Len(s), b \in 1..Len(s) :
        /\ a <= b
        /\ \A i \in 1..Len(s) : (i < a \/ i > b) => s[i] = " "
        /\ \A i \in a..b : s[i] \in Digits \/ (i = a /\ s[i] = "-" /\ a < b)

\* the chat id, or a non-empty thread id, is not an integer string
InvalidIdentifier ==
    \/ ~IsIntegerString(chat_id)
    \/ message_thread_id # None /\ message_thread_id[1] # <<>>
         /\ ~IsIntegerString(message_thread_id[1])

\* C5: with a chat id or a non-empty thread id that is not an integer string,
\* send_to_telegram returns False and no request goes to the destination.
C5_InvalidIdsShortCircuit ==
    (SendCalled /\ InvalidIdentifier) =>
        /\ \A op \in BotOps : Started(op) = {}
        /\ pc \in {"send_to_telegram", "done", "after_send", "main_exit", "exited"}
        /\ (pc # "send_to_telegram" => SendReturned(FALSE))

\* a direct call with a valid chat id and the thread id "a" that returned False
C5_Witness ==
    /\ entry = "send_to_telegram" /\ pc = "done"
    /\ IsIntegerString(chat_id)
    /\ message_thread_id = Some(<<"a">>)
    /\ SendReturned(FALSE)
    /\ net = <<>>

\* C6: when one of the four required variables is unset or empty, main logs a
\* configuration error and exits with code 1, and no request of the pipeline
\* has been made.
C6_MissingSecretIsFatal ==
    (entry = "main" /\ \E v \in RequiredSet : environ[v] \in {None, Some(<<>>)}) =>
        /\ net = <<>>
        /\ pc \in {"main", "exited"}
        /\ (pc = "exited" =>
              /\ exit_code = Some(1)
              /\ log[Len(log)] = "ERROR Configuration error")

\* a run with only the chat id empty that exited 1
C6_Witness ==
    /\ entry = "main" /\ pc = "exited"
    /\ environ["TELEGRAM_CHAT_ID"] = Some(<<>>)
    /\ \A v \in RequiredSet \ {"TELEGRAM_CHAT_ID"} : environ[v] = Some(<<"a">>)
    /\ exit_code = Some(1)

\* float() accepts the value
ConvertibleToFloat(v) ==
    v.kind \in {"num", "bool"} \/ (v.kind = "str" /\ v.val \in NumericStrings)

\* not a non-empty array whose first element is an object with a usable
\* zero_g_strike
MalformedMetric(body) ==
    \/ body.kind # "list"
    \/ body.val = <<>>
    \/ LET row == body.val[1]
       IN \/ row.kind # "dict"
          \/ "zero_g_strike" \notin DOMAIN row.val
          \/ ~ConvertibleToFloat(row.val["zero_g_strike"])

\* the exceptions raised while reading a response
ParseErrors == {"ValueError", "TypeError", "KeyError", "AttributeError"}

PriceBar(x) ==
    /\ x.kind = "dict"
    /\ {"date", "open", "high", "low", "close"} \subseteq DOMAIN x.val
    /\ x.val["date"].kind = "str"
    /\ \A k \in {"open", "high", "low", "close"} : x.val[k].kind = "num"

\* C8: for every order of the records and every day count, the data lines
\* of the table are strictly ascending by date (no date twice), there are at
\* most `days` of them, only older records are left out, and the latest
\* close is the close of the last line.  Stated for a bare list of price
\* bars and a day count of at least 1.
C8_TableAscendingAndTrimmed ==
    (entry = "fetch_spx_ohlc_csv" /\ pc = "done" /\ arg.days >= 1
       /\ arg.http.kind = "ok" /\ arg.http.val.kind = "list"
       /\ (\A i \in 1..Len(arg.http.val.val) : PriceBar(arg.http.val.val[i]))
       /\ ret[1].kind = "ok") =>
        LET lines == ret[1].val.csv
            xs == arg.http.val.val
        IN /\ \A i \in 1..(Len(lines) - 1) :
                 DateIndex(lines[i].date) < DateIndex(lines[i + 1].date)
           /\ Len(lines) <= arg.days
           /\ \A i \in 1..Len(xs) :
                 DateIndex(xs[i].val["date"].val) < DateIndex(lines[1].date)
                     => Len(lines) = arg.days
           /\ lines[Len(lines)].close = Fmt2(ret[1].val.latest_close)

\* a record that carries a date and the four prices
WellFormedBar(x) ==
    x.kind = "dict" /\ {"date", "open", "high", "low", "close"} \subseteq DOMAIN x.val

\* a bare list, or an object wrapping a list under historical, that is not
\* empty and holds only well-formed records
WellFormedPrices(body) ==
    LET h == IF body.kind = "list" THEN body
             ELSE IF body.kind = "dict" /\ "historical" \in DOMAIN body.val
             THEN body.val["historical"] ELSE JNull
    IN h.kind = "list" /\ h.val # <<>> /\ \A i \in 1..Len(h.val) : WellFormedBar(h.val[i])

\* C9: fetch_spx_ohlc_csv returns a table only for a well-formed response:
\* a body of another shape, an empty list, or an entry without a date or
\* without one of the four prices makes the call raise; no price is made up.
\* Stated for the calls that render every entry (days is not below the
\* number of entries).
C9_TableOnlyForWellFormed ==
    (entry = "fetch_spx_ohlc_csv" /\ pc = "done" /\ arg.http.kind = "ok"
       /\ ~WellFormedPrices(arg.http.val) /\ arg.days >= MaxBars) =>
        ret[1].kind = "raise"

\* the reply carries a non-empty string as the content of its first choice
HasTextContent(body) ==
    \E c \in Contents :
        c.kind = "str" /\ c.val # EmptyDoc /\ body = Completion(JList(<<Choice(c)>>))

\* C10: every failure to parse or validate the content of the reply is a
\* ValueError: content that is not JSON, JSON that is not an object, a
\* missing or blank field, a missing, empty or all-blank implications list.
C10_InvalidNarrativeIsValueError ==
    (entry = "analyze_with_openrouter" /\ pc = "done" /\ arg.kind = "ok"
       /\ HasTextContent(arg.val) /\ ret[1].kind = "raise") =>
        ret[1].exc = "ValueError"

\* the decoded reply, when the first choice carries text that is a JSON object
ReplyContent == arg.val.val["choices"].val[1].val["message"].val["content"]

HasReplyObject ==
    /\ entry = "analyze_with_openrouter" /\ arg.kind = "ok"
    /\ HasTextContent(arg.val)
    /\ ReplyContent.val.doc = "json"
    /\ ReplyContent.val.value.kind = "dict"

Reply == ReplyContent.val.value.val

\* an item that is a string with a character other than a blank
IsKept(x) == x.kind = "str" /\ \E i \in 1..Len(x.val) : x.val[i] # " "

\* s from its first to its last character that is not a blank
Trimmed(s) ==
    LET solid == {i \in 1..Len(s) : s[i] # " "}
        lo == CHOOSE i \in solid : \A j \in solid : i <= j
        hi == CHOOSE i \in solid : \A j \in solid : j <= i
    IN SubSeq(s, lo, hi)

KeptItems(items) == SelectSeq(items, IsKept)

\* the bullet lines of an accepted narrative: what follows its three headings
RenderedBullets == SubSeq(ret[1].val, 4, Len(ret[1].val))

\* C11: the bullets of an accepted narrative are the implications items that
\* are strings and not blank, each trimmed, in their original order; the other
\* items are dropped, and a list in which no item remains is rejected.
C11_BulletsAreKeptItemsTrimmed ==
    (HasReplyObject /\ pc = "done" /\ "implications" \in DOMAIN Reply
       /\ Reply["implications"].kind = "list") =>
        LET kept == KeptItems(Reply["implications"].val)
        IN /\ kept = <<>> => ret[1].kind = "raise"
           /\ ret[1].kind = "ok" =>
                /\ Len(RenderedBullets) = Len(kept)
                /\ \A i \in 1..Len(kept) :
                     RenderedBullets[i] = [label |-> "- ", text |-> Trimmed(kept[i].val)]

\* ["a", "", "  b  "] was accepted and rendered as the two bullets a and b
C11_Witness ==
    /\ HasReplyObject /\ pc = "done" /\ "implications" \in DOMAIN Reply
    /\ Reply["implications"] = JList(MixedItems)
    /\ ret[1].kind = "ok"
    /\ RenderedBullets = <<[label |-> "- ", text |-> <<"a">>], [label |-> "- ", text |-> <<"b">>]>>

\* C12: every accepted narrative is a valid NarrativeResult: its significance
\* and its trend are not empty after trimming, and it carries at least one
\* and at most four implications.
C12_AcceptedNarrativeIsValid ==
    (HasReplyObject /\ pc = "done" /\ ret[1].kind = "ok") =>
        /\ IsKept(Reply["zero_gamma_significance"])
        /\ ret[1].val[1].text = Trimmed(Reply["zero_gamma_significance"].val)
        /\ IsKept(Reply["trend"])
        /\ ret[1].val[2].text = Trimmed(Reply["trend"].val)
        /\ Len(RenderedBullets) >= 1
        /\ Len(RenderedBullets) <= 4

\* the escaped forms html.escape writes
Entities == {<<"&", "a", "m", "p", ";">>, <<"&", "l", "t", ";">>, <<"&", "g", "t", ";">>, <<"&", "q", "u", "o", "t", ";">>, <<"&", "#", "x", "2", "7", ";">>}

OpenTags == {<<"<", "b", ">">>, <<"<", "i", ">">>}
CloseTags == {<<"<", "/", "b", ">">>, <<"<", "/", "i", ">">>}

\* the text t is written in m from position i on
At(m, i, t) == i + Len(t) - 1 <= Len(m) /\ SubSeq(m, i, i + Len(t) - 1) = t

\* the letter of the tag that starts at position i
TagLetter(m, i) == IF m[i + 1] = "/" THEN m[i + 2] ELSE m[i + 1]

\* Every < starts a tag, every > ends one and every & starts an escaped form;
\* the tag after an opening tag is the closing tag of the same letter, the
\* tag after a closing tag is an opening one, the first tag opens and the
\* last one closes (so the tags are balanced pairs, none inside another).
MarkupSafe(m) ==
    LET starts == {i \in 1..Len(m) : m[i] = "<"}
        IsOpen(i) == \E t \in OpenTags : At(m, i, t)
        IsClose(i) == \E t \in CloseTags : At(m, i, t)
        NextTag(i) == CHOOSE j \in starts : j > i /\ \A k \in starts : k > i => j <= k
    IN /\ \A i \in starts : IsOpen(i) \/ IsClose(i)
       /\ \A i \in 1..Len(m) :
            /\ m[i] = ">" => \E j \in starts : \E t \in OpenTags \cup CloseTags :
                                 At(m, j, t) /\ j + Len(t) - 1 = i
            /\ m[i] = "&" => \E e \in Entities : At(m, i, e)
       /\ \A i \in starts :
            /\ IsOpen(i) => /\ \E j \in starts : j > i
                            /\ IsClose(NextTag(i))
                            /\ TagLetter(m, NextTag(i)) = TagLetter(m, i)
            /\ (IsClose(i) /\ \E j \in starts : j > i) => IsOpen(NextTag(i))
            /\ (\A j \in starts : i <= j) => IsOpen(i)

\* C13: the message built by format_analysis_message is markup-safe for every
\* symbol and every narrative text: its only tags are balanced <b> and <i>
\* pairs that are not nested, and every <, > and & of the inputs is escaped.
C13_MessageIsMarkupSafe ==
    /\ (entry = "format_analysis_message" /\ pc = "done") => MarkupSafe(ret[1].val)
    /\ (entry = "main" /\ locals.step = 5) => MarkupSafe(locals.message)

====
